---- MODULE Spec2Model ----
(***************************************************************************)
(* Model of btcore/src/uuid.cc: the 128-bit Bluetooth UUID value type, its *)
(* canonical text form, and the narrowing to 16- and 32-bit short UUIDs.   *)
(*                                                                         *)
(* Conventions.  A character is its ASCII code.  A C string is the         *)
(* sequence of its characters before the terminating NUL.  A bt_uuid_t is  *)
(* the sequence of its 16 bytes; byte i of the source (uu[i], 0-based) is  *)
(* element i+1.  A NULL pointer is the empty sequence.  A 32-bit machine   *)
(* word is the pair <<high 16 bits, low 16 bits>>, so that no intermediate *)
(* value leaves the range of the model checker's integers.                 *)
(***************************************************************************)
EXTENDS Integers, Sequences, FiniteSets, TLC

VARIABLES
  uuid,         \* the caller's bt_uuid_t, or NULL
  input,        \* the caller's C string
  uuid_string,  \* the uuid_string_t buffer and the memory after it, or NULL
  parsed,       \* the bt_uuid_t returned by the last uuid_new, or NULL
  live,         \* bt_uuid_t blocks obtained from osi_calloc and not yet freed
  uuid16,       \* the caller's uint16_t output variable
  uuid32,       \* the caller's uint32_t output variable
  ret,          \* the value returned by the last bool-valued call
  op,           \* the function called last
  arg,          \* the bt_uuid_t argument of the last call that takes one
  text,         \* the string argument of the last uuid_new
  aborted       \* a CHECK failed: the process is gone

vars == <<uuid, input, uuid_string, parsed, live, uuid16, uuid32, ret, op,
          arg, text, aborted>>

----------------------------------------------------------------------------
(* Characters *)

NUL == 0
DASH == 45
PLUS == 43
DIGIT_0 == 48
LOWER_X == 120
UPPER_X == 88

Ord ==
  ("0" :> 48) @@ ("1" :> 49) @@ ("2" :> 50) @@ ("3" :> 51) @@ ("4" :> 52) @@
  ("5" :> 53) @@ ("6" :> 54) @@ ("7" :> 55) @@ ("8" :> 56) @@ ("9" :> 57) @@
  ("a" :> 97) @@ ("b" :> 98) @@ ("c" :> 99) @@ ("d" :> 100) @@ ("e" :> 101) @@
  ("f" :> 102) @@ ("g" :> 103) @@ ("x" :> 120) @@ ("z" :> 122) @@
  ("A" :> 65) @@ ("B" :> 66) @@ ("C" :> 67) @@ ("D" :> 68) @@ ("E" :> 69) @@
  ("F" :> 70) @@ ("G" :> 71) @@ ("X" :> 88) @@
  ("-" :> 45) @@ ("+" :> 43) @@ (" " :> 32) @@ ("/" :> 47) @@ (":" :> 58) @@
  ("@" :> 64)

Str(t) == [i \in 1..Len(t) |-> Ord[t[i]]]

NULL == <<>>

----------------------------------------------------------------------------
(* Constants of the translation unit *)

UUID_WELL_FORMED_STRING_LEN == 36
UUID_WELL_FORMED_STRING_LEN_WITH_NULL == 36 + 1
SIZEOF_BT_UUID_T == 16

empty_uuid == [i \in 1..SIZEOF_BT_UUID_T |-> 0]

base_uuid ==
  <<0, 0, 0, 0, 0, 0, 16, 0, 128, 0, 0, 128, 95, 155, 52, 251>>

uu(u, i) == u[i + 1]

----------------------------------------------------------------------------
(* libc: ctype, strlen, strtoul, memcmp *)

isspace(c) == c = 32 \/ (c >= 9 /\ c <= 13)

isxdigit(c) ==
  \/ (c >= 48 /\ c <= 57)
  \/ (c >= 97 /\ c <= 102)
  \/ (c >= 65 /\ c <= 70)

DigitValue(c) ==
  IF c >= 48 /\ c <= 57 THEN c - 48
  ELSE IF c >= 97 /\ c <= 102 THEN c - 97 + 10
  ELSE c - 65 + 10

strlen(s) == Len(s)

\* s[off] for a C string: the characters, then the terminator.
CharAt(s, off) == IF off < Len(s) THEN s[off + 1] ELSE NUL

RECURSIVE SkipSpace(_, _)
SkipSpace(buf, i) ==
  IF isspace(buf[i]) THEN SkipSpace(buf, i + 1) ELSE i

RECURSIVE Accumulate(_, _, _)
Accumulate(buf, i, acc) ==
  IF isxdigit(buf[i])
    THEN Accumulate(buf, i + 1, acc * 16 + DigitValue(buf[i]))
    ELSE acc

\* A conversion that takes no sign: '+' and '-' end the subject.
strtoul_Unsigned(buf) ==
  LET i == SkipSpace(buf, 1)
      k == IF /\ buf[i] = DIGIT_0
              /\ (buf[i + 1] = LOWER_X \/ buf[i + 1] = UPPER_X)
              /\ isxdigit(buf[i + 2])
             THEN i + 2 ELSE i
  IN Accumulate(buf, k, 0)

\* strtoul(buf, NULL, 16) of a NUL-terminated buffer.  The result of a
\* negated subject is 2^64 - n in an unsigned long; it is kept here as -n,
\* which is the same value modulo every power of two up to 2^64.
strtoul(buf) ==
  LET i == SkipSpace(buf, 1)
      neg == buf[i] = DASH
      j == IF buf[i] = DASH \/ buf[i] = PLUS THEN i + 1 ELSE i
      k == IF /\ buf[j] = DIGIT_0
              /\ (buf[j + 1] = LOWER_X \/ buf[j + 1] = UPPER_X)
              /\ isxdigit(buf[j + 2])
             THEN j + 2 ELSE j
      n == Accumulate(buf, k, 0)
  IN IF neg THEN 0 - n ELSE n

ToUint8(n) == n % 256

memcmp_eq(a, b, n) == \A i \in 1..n : a[i] = b[i]

\* Bytes of memory modelled after the end of an allocated block.
Redzone == 2

\* The caller holds at most this many results of uuid_new at a time.
MaxLive == 2

\* The longest input has this many characters after the 36th.
MaxExtra == 2

----------------------------------------------------------------------------
(* osi allocator *)

\* Memory after the end of an allocation, as long as nothing wrote to it.
UNTOUCHED == 0 - 1

\* osi_calloc(n): n zeroed bytes, followed here by Redzone bytes that do not
\* belong to the block.
osi_calloc(n) ==
  [i \in 1..(n + Redzone) |-> IF i <= n THEN 0 ELSE UNTOUCHED]

----------------------------------------------------------------------------
(* uuid_string_t *)

uuid_string_new == osi_calloc(UUID_WELL_FORMED_STRING_LEN_WITH_NULL)

RECURSIVE CStringFrom(_, _)
CStringFrom(mem, i) ==
  IF i > Len(mem) \/ mem[i] = NUL THEN <<>>
  ELSE <<mem[i]>> \o CStringFrom(mem, i + 1)

\* The C string a caller reads through the pointer uuid_string_data returns.
uuid_string_data(us) == CStringFrom(us, 1)

----------------------------------------------------------------------------
(* uuid_new *)

\* The switch without its last case.
SkipsDashAfter_Three(i) == i \in {3, 5, 7}

\* The switch at the end of the loop body: skip the dash after these bytes.
SkipsDashAfter(i) == i \in {3, 5, 7, 9}

\* The offset s - uuid_string at the start of iteration i of the loop.
RECURSIVE PairOffset(_)
PairOffset(i) ==
  IF i = 0 THEN 0
  ELSE PairOffset(i - 1) + 2 + (IF SkipsDashAfter(i - 1) THEN 1 ELSE 0)

\* One iteration of the loop: buf = {s[0], s[1], 0}; uu[i] = strtoul(buf).
ParsePair(s, i) ==
  LET off == PairOffset(i)
      buf == <<CharAt(s, off), CharAt(s, off + 1), NUL>>
  IN ToUint8(strtoul(buf))

TooShort(s) == strlen(s) < UUID_WELL_FORMED_STRING_LEN

\* The test without its last operand.
DashMissing_Three(s) ==
  \/ CharAt(s, 8) # DASH
  \/ CharAt(s, 13) # DASH
  \/ CharAt(s, 18) # DASH

DashMissing(s) ==
  \/ CharAt(s, 8) # DASH
  \/ CharAt(s, 13) # DASH
  \/ CharAt(s, 18) # DASH
  \/ CharAt(s, 23) # DASH

\* The result: the pointer returned and the number of blocks taken from
\* osi_calloc.
uuid_new(s) ==
  IF TooShort(s) THEN [uuid |-> NULL, allocs |-> 0]
  ELSE IF DashMissing(s) THEN [uuid |-> NULL, allocs |-> 0]
  ELSE [uuid |-> [i \in 1..SIZEOF_BT_UUID_T |-> ParsePair(s, i - 1)],
        allocs |-> 1]

----------------------------------------------------------------------------
(* uuid_is_empty, uuid_is_equal, uuid_is_base *)

\* A comparison one byte short.
uuid_is_empty_Short(u) ==
  u = NULL \/ memcmp_eq(u, empty_uuid, SIZEOF_BT_UUID_T - 1)

uuid_is_empty(u) ==
  u = NULL \/ memcmp_eq(u, empty_uuid, SIZEOF_BT_UUID_T)

uuid_is_equal(first, second) == memcmp_eq(first, second, SIZEOF_BT_UUID_T)

\* A loop that starts at byte 0.
uuid_is_base_Whole(u) ==
  IF u = NULL THEN FALSE
  ELSE \A i \in 0..15 : uu(u, i) = uu(base_uuid, i)

uuid_is_base(u) ==
  IF u = NULL THEN FALSE
  ELSE \A i \in 4..15 : uu(u, i) = uu(base_uuid, i)

----------------------------------------------------------------------------
(* uuid_128_to_16, uuid_128_to_32 *)

Pow2(n) == IF n = 24 THEN 16777216 ELSE IF n = 16 THEN 65536
           ELSE IF n = 8 THEN 256 ELSE 1

\* A shift that stops at INT_MAX instead of reaching the sign bit.
Shl32_Clamped(b, n) ==
  IF n >= 24 /\ b >= 128 THEN <<32767, 65535>>
  ELSE IF n >= 16 THEN <<(b * Pow2(n - 16)) % 65536, 0>>
  ELSE <<((b * Pow2(n)) \div 65536) % 65536, (b * Pow2(n)) % 65536>>

\* b shifted left by n, for a byte b promoted to a 32-bit int, as the bit pattern
\* <<high half, low half>>.
Shl32(b, n) ==
  IF n >= 16 THEN <<(b * Pow2(n - 16)) % 65536, 0>>
  ELSE <<((b * Pow2(n)) \div 65536) % 65536, (b * Pow2(n)) % 65536>>

\* x + y on 32-bit patterns.  In uuid_128_to_32 the left operand may be
\* negative as an int (byte 0 >= 0x80) and every right operand is
\* non-negative and below 2^24, so the int addition cannot overflow and is
\* the addition of the patterns.
Add32(x, y) ==
  LET lo == x[2] + y[2]
  IN <<(x[1] + y[1] + (lo \div 65536)) % 65536, lo % 65536>>

ToUint16(w) == w[2]

\* Byte 3 as the high byte.
Value16_Swapped(u) ==
  ToUint16(Add32(Shl32(uu(u, 3), 8), Shl32(uu(u, 2), 0)))

Value16(u) == ToUint16(Add32(Shl32(uu(u, 2), 8), Shl32(uu(u, 3), 0)))

Value32(u) ==
  Add32(Add32(Add32(Shl32(uu(u, 0), 24), Shl32(uu(u, 1), 16)),
              Shl32(uu(u, 2), 8)),
        Shl32(uu(u, 3), 0))

\* The store before the test.
uuid_128_to_16_StoreFirst(u, out) ==
  IF ~uuid_is_base(u) THEN [ret |-> FALSE, out |-> Value16(u)]
  ELSE [ret |-> TRUE, out |-> Value16(u)]

\* The value returned and the value of *uuid16 after the call.
uuid_128_to_16(u, out) ==
  IF ~uuid_is_base(u) THEN [ret |-> FALSE, out |-> out]
  ELSE [ret |-> TRUE, out |-> Value16(u)]

uuid_128_to_32(u, out) ==
  IF ~uuid_is_base(u) THEN [ret |-> FALSE, out |-> out]
  ELSE [ret |-> TRUE, out |-> Value32(u)]

----------------------------------------------------------------------------
(* uuid_to_string *)

\* The digits of "%02X".
HexChar_Upper(d) == IF d < 10 THEN 48 + d ELSE 65 + (d - 10)

HexChar(d) == IF d < 10 THEN 48 + d ELSE 97 + (d - 10)

RECURSIVE HexDigits(_)
HexDigits(n) ==
  IF n < 16 THEN <<HexChar(n)>>
  ELSE HexDigits(n \div 16) \o <<HexChar(n % 16)>>

\* The characters "%x" produces for n.
Format02x_NoPad(n) == HexDigits(n)

\* The characters "%02x" produces for n.
Format02x(n) ==
  LET d == HexDigits(n) IN IF Len(d) < 2 THEN <<DIGIT_0>> \o d ELSE d

\* snprintf(string, size, "%02x", n) on memory mem, string being the offset
\* of the destination: at most size - 1 characters and a terminator are
\* written; the length of the whole output is returned.
snprintf(mem, string, size, n) ==
  LET out == Format02x(n)
      w == IF size = 0 THEN 0
           ELSE IF Len(out) < size THEN Len(out) ELSE size - 1
  IN [mem |-> [i \in 1..Len(mem) |->
                 IF size > 0 /\ i - 1 >= string /\ i - 1 < string + w
                   THEN out[i - string]
                 ELSE IF size > 0 /\ i - 1 = string + w THEN NUL
                 ELSE mem[i]],
      n |-> Len(out)]

\* for (i = lo; i < hi; i++) string += snprintf(string, end - string, ...)
RECURSIVE FormatBytes(_, _, _, _, _)
FormatBytes(st, u, i, hi, end) ==
  IF i >= hi THEN st
  ELSE LET r == snprintf(st.mem, st.string, end - st.string, uu(u, i))
       IN FormatBytes([mem |-> r.mem, string |-> st.string + r.n],
                      u, i + 1, hi, end)

\* *string = '-'; ++string;
PutDash(st) ==
  [mem |-> [st.mem EXCEPT ![st.string + 1] = DASH],
   string |-> st.string + 1]

\* The memory after uuid_to_string(u, us).
uuid_to_string(u, us) ==
  LET end == UUID_WELL_FORMED_STRING_LEN_WITH_NULL
      s0 == [mem |-> us, string |-> 0]
      s1 == PutDash(FormatBytes(s0, u, 0, 4, end))
      s2 == PutDash(FormatBytes(s1, u, 4, 6, end))
      s3 == PutDash(FormatBytes(s2, u, 6, 8, end))
      s4 == PutDash(FormatBytes(s3, u, 8, 10, end))
      s5 == FormatBytes(s4, u, 10, 16, end)
  IN s5.mem

----------------------------------------------------------------------------
(* The calls.  Each action is one call of a function of uuid.cc by the      *)
(* program that uses it, on the objects that program holds.                 *)

\* The UUID pointers the caller can pass.
UuidArgs == {uuid, parsed}

\* A CHECK fails in function f, called with the UUID pointer u.
Abort(f, u) ==
  /\ aborted' = TRUE
  /\ op' = f
  /\ arg' = u
  /\ UNCHANGED <<uuid, input, uuid_string, parsed, live, uuid16, uuid32,
                 ret, text>>

UuidStringNew ==
  /\ ~aborted
  /\ uuid_string = NULL
  /\ uuid_string' = uuid_string_new
  /\ op' = "uuid_string_new"
  /\ UNCHANGED <<uuid, input, parsed, live, uuid16, uuid32, ret, arg, text,
                 aborted>>

UuidStringFree ==
  /\ ~aborted
  /\ uuid_string # NULL
  /\ uuid_string' = NULL
  /\ op' = "uuid_string_free"
  /\ UNCHANGED <<uuid, input, parsed, live, uuid16, uuid32, ret, arg, text,
                 aborted>>

\* uuid_new(s), s being the caller's string or uuid_string_data(uuid_string).
\* The caller keeps one result at a time and frees it before the next call.
UuidNewOf(s) ==
  LET r == uuid_new(s)
  IN /\ parsed' = r.uuid
     /\ live' = live + r.allocs
     /\ text' = s
     /\ op' = "uuid_new"
     /\ UNCHANGED <<uuid, input, uuid_string, uuid16, uuid32, ret, arg,
                    aborted>>

UuidNew ==
  /\ ~aborted
  /\ parsed = NULL
  /\ live < MaxLive
  /\ \/ UuidNewOf(input)
     \/ /\ uuid_string # NULL
        /\ UuidNewOf(uuid_string_data(uuid_string))
     \/ /\ uuid_string = NULL
        /\ Abort("uuid_string_data", arg)

UuidFree ==
  /\ ~aborted
  /\ parsed # NULL
  /\ parsed' = NULL
  /\ live' = live - 1
  /\ arg' = parsed
  /\ op' = "uuid_free"
  /\ UNCHANGED <<uuid, input, uuid_string, uuid16, uuid32, ret, text,
                 aborted>>

UuidIsEmpty ==
  /\ ~aborted
  /\ \E u \in UuidArgs :
       /\ ret' = uuid_is_empty(u)
       /\ arg' = u
  /\ op' = "uuid_is_empty"
  /\ UNCHANGED <<uuid, input, uuid_string, parsed, live, uuid16, uuid32,
                 text, aborted>>

UuidIsEqual ==
  /\ ~aborted
  /\ \/ /\ uuid # NULL /\ parsed # NULL
        /\ ret' = uuid_is_equal(uuid, parsed)
        /\ arg' = uuid
        /\ op' = "uuid_is_equal"
        /\ UNCHANGED <<uuid, input, uuid_string, parsed, live, uuid16,
                       uuid32, text, aborted>>
     \/ /\ (uuid = NULL \/ parsed = NULL)
        /\ Abort("uuid_is_equal", uuid)

UuidIsBase ==
  /\ ~aborted
  /\ \E u \in UuidArgs :
       /\ ret' = uuid_is_base(u)
       /\ arg' = u
  /\ op' = "uuid_is_base"
  /\ UNCHANGED <<uuid, input, uuid_string, parsed, live, uuid16, uuid32,
                 text, aborted>>

Uuid128To16 ==
  /\ ~aborted
  /\ \E u \in UuidArgs :
       \/ /\ u # NULL
          /\ LET r == uuid_128_to_16(u, uuid16)
             IN /\ ret' = r.ret
                /\ uuid16' = r.out
          /\ arg' = u
          /\ op' = "uuid_128_to_16"
          /\ UNCHANGED <<uuid, input, uuid_string, parsed, live, uuid32,
                         text, aborted>>
       \/ /\ u = NULL
          /\ Abort("uuid_128_to_16", u)

Uuid128To32 ==
  /\ ~aborted
  /\ \E u \in UuidArgs :
       \/ /\ u # NULL
          /\ LET r == uuid_128_to_32(u, uuid32)
             IN /\ ret' = r.ret
                /\ uuid32' = r.out
          /\ arg' = u
          /\ op' = "uuid_128_to_32"
          /\ UNCHANGED <<uuid, input, uuid_string, parsed, live, uuid16,
                         text, aborted>>
       \/ /\ u = NULL
          /\ Abort("uuid_128_to_32", u)

UuidToString ==
  /\ ~aborted
  /\ \E u \in UuidArgs :
       \/ /\ u # NULL /\ uuid_string # NULL
          /\ uuid_string' = uuid_to_string(u, uuid_string)
          /\ arg' = u
          /\ op' = "uuid_to_string"
          /\ UNCHANGED <<uuid, input, parsed, live, uuid16, uuid32, ret,
                         text, aborted>>
       \/ /\ (u = NULL \/ uuid_string = NULL)
          /\ Abort("uuid_to_string", u)

----------------------------------------------------------------------------
(* Inputs *)

\* "00001101-0000-1000-8000-00805f9b34fb"
SppText ==
  Str(<<
       "0", "0", "0", "0", "1", "1", "0", "1", "-", "0", "0", "0",
       "0", "-", "1", "0", "0", "0", "-", "8", "0", "0", "0", "-",
       "0", "0", "8", "0", "5", "f", "9", "b", "3", "4", "f", "b">>)

\* "DeadBeef-0123-4567-89aB-CdEf9A7c3E0F"
MixedText ==
  Str(<<
       "D", "e", "a", "d", "B", "e", "e", "f", "-", "0", "1", "2",
       "3", "-", "4", "5", "6", "7", "-", "8", "9", "a", "B", "-",
       "C", "d", "E", "f", "9", "A", "7", "c", "3", "E", "0", "F">>)

\* Characters put in place of one character of a text: digits, letters
\* and the characters next to their ranges, signs, white space.
Alphabet ==
  {48, 57, 97, 102, 65, 70, 47, 58, 64, 71, 96, 103, 120, 88, 45, 43, 32,
   9, 122}

\* Characters put in place of both characters of a pair.
PairAlphabet == {48, 55, 99, 69, 103, 120, 45, 43, 32}

\* n characters that follow a text.
Trailing(n) == [i \in 1..n |-> IF i % 2 = 1 THEN 122 ELSE 48]

ReplaceAt(t, off, c) == [t EXCEPT ![off + 1] = c]

TextInputs ==
  {ReplaceAt(t, off, c) :
     t \in {SppText, MixedText}, off \in 0..35, c \in Alphabet}
  \cup
  {ReplaceAt(ReplaceAt(MixedText, PairOffset(k), c0), PairOffset(k) + 1, c1) :
     k \in 0..15, c0 \in PairAlphabet, c1 \in PairAlphabet}
  \cup
  {SubSeq(t \o Trailing(MaxExtra), 1, n) :
     t \in {SppText, MixedText}, n \in 0..(36 + MaxExtra)}
  \cup
  {ReplaceAt(MixedText \o Trailing(MaxExtra), off, c) :
     off \in {8, 13, 18, 23}, c \in {48, 45, 32}}

SppUuid == <<0, 0, 17, 1, 0, 0, 16, 0, 128, 0, 0, 128, 95, 155, 52, 251>>

MixedUuid ==
  <<222, 173, 190, 239, 1, 35, 69, 103, 137, 171, 205, 239, 154, 124, 62, 15>>

FullUuid == [i \in 1..16 |-> 255]

ByteValues == {0, 1, 9, 10, 15, 16, 127, 128, 160, 255}

HeadValues == {0, 1, 128, 255}

SetByte(u, i, b) == [u EXCEPT ![i + 1] = b]

UuidInputs ==
  {SetByte(t, i, b) :
     t \in {empty_uuid, SppUuid, MixedUuid, FullUuid},
     i \in 0..15, b \in ByteValues}
  \cup
  {[i \in 1..16 |-> IF i <= 4 THEN h[i] ELSE base_uuid[i]] :
     h \in [1..4 -> HeadValues]}
  \cup
  {SetByte(SetByte(SppUuid, 0, b), 1, 52) : b \in 0..255}
  \cup
  {NULL}

InitCommon ==
  /\ uuid_string = NULL
  /\ parsed = NULL
  /\ live = 0
  /\ uuid32 = <<57005, 48879>>
  /\ ret = FALSE
  /\ op = "none"
  /\ arg = NULL
  /\ text = <<>>
  /\ aborted = FALSE

\* The caller holds a UUID and no text.
InitBytes ==
  /\ uuid \in UuidInputs
  /\ input = <<>>
  /\ uuid16 = 43981
  /\ InitCommon

\* The same, with either of two values in the caller's uint16_t.
InitNarrow ==
  /\ uuid \in UuidInputs
  /\ input = <<>>
  /\ uuid16 \in {0, 43981}
  /\ InitCommon

\* The caller holds a text and no UUID.
InitText ==
  /\ uuid = NULL
  /\ input \in TextInputs
  /\ uuid16 = 43981
  /\ InitCommon

NextNarrow ==
  \/ UuidIsEmpty
  \/ UuidIsBase
  \/ Uuid128To16
  \/ Uuid128To32

NextFormat ==
  \/ UuidStringNew
  \/ UuidToString
  \/ UuidNew
  \/ UuidIsEqual
  \/ UuidFree
  \/ UuidStringFree

NextParse ==
  \/ UuidStringNew
  \/ UuidNew
  \/ UuidToString

SpecNarrow == InitNarrow /\ [][NextNarrow]_vars

SpecFormat == InitBytes /\ [][NextFormat]_vars

SpecParse == InitText /\ [][NextParse]_vars

TypeOK ==
  /\ aborted \in BOOLEAN
  /\ ret \in BOOLEAN
  /\ live \in 0..MaxLive
  /\ uuid16 \in 0..65535
  /\ uuid32[1] \in 0..65535 /\ uuid32[2] \in 0..65535
  /\ parsed # NULL => (Len(parsed) = 16 /\ \A i \in 1..16 : parsed[i] \in 0..255)

----------------------------------------------------------------------------
(* Properties of the narrowing and the predicates (SpecNarrow) *)

\* Bytes 4-15 of the Bluetooth base UUID: 00 00 10 00 80 00 00 80 5f 9b 34 fb.
BaseTail == <<0, 0, 16, 0, 128, 0, 0, 128, 95, 155, 52, 251>>

NotBaseDerived(u) == \E i \in 4..15 : uu(u, i) # BaseTail[i - 3]

\* u with its bytes 0-3 replaced by h.
WithHead(u, h) == [i \in 1..16 |-> IF i <= 4 THEN h[i] ELSE u[i]]

\* C9: uuid_is_empty returns true for an absent reference and for the UUID
\* whose 16 bytes are all zero, and false for every UUID with a non-zero
\* byte in any of the 16 positions.
C9_IsEmpty ==
  op = "uuid_is_empty" =>
    /\ (arg = NULL => ret = TRUE)
    /\ (arg # NULL /\ (\A i \in 0..15 : uu(arg, i) = 0) => ret = TRUE)
    /\ (arg # NULL /\ (\E i \in 0..15 : uu(arg, i) # 0) => ret = FALSE)

\* uuid_is_empty has answered false for a UUID whose only non-zero byte is
\* the last one.
C9_Witness ==
  /\ op = "uuid_is_empty"
  /\ arg # NULL
  /\ \A i \in 0..14 : uu(arg, i) = 0
  /\ uu(arg, 15) # 0
  /\ ret = FALSE

\* C5: uuid_is_base(u) is true exactly when bytes 4-15 of u are the base
\* pattern; UUIDs that differ from u only in bytes 0-3 get the same answer;
\* an absent reference gives false.
C5_IsBase ==
  op = "uuid_is_base" =>
    /\ (arg = NULL => ret = FALSE)
    /\ (arg # NULL =>
          /\ ret = (SubSeq(arg, 5, 16) = BaseTail)
          /\ \A h \in [1..4 -> HeadValues] :
               uuid_is_base(WithHead(arg, h)) = ret)

\* uuid_is_base has answered true for a UUID whose bytes 0-3 are not those
\* of base_uuid.
C5_Witness ==
  /\ op = "uuid_is_base"
  /\ arg # NULL
  /\ uu(arg, 0) = 255
  /\ ret = TRUE

\* C4: uuid_128_to_16 and uuid_128_to_32 return false for every UUID whose
\* bytes 4-15 differ from the base pattern somewhere; the caller's output
\* variables then keep their values, and the call returns (no CHECK fails).
C4_NarrowingFails ==
  [][(/\ op' \in {"uuid_128_to_16", "uuid_128_to_32"}
      /\ arg' # NULL
      /\ NotBaseDerived(arg'))
     => (/\ aborted' = FALSE
         /\ ret' = FALSE
         /\ uuid16' = uuid16
         /\ uuid32' = uuid32)]_vars

\* uuid_128_to_32 has failed on a UUID that is not base-derived and the
\* caller's uint32_t holds what it held at the start.
C4_Witness ==
  /\ op = "uuid_128_to_32"
  /\ arg = MixedUuid
  /\ ret = FALSE
  /\ aborted = FALSE
  /\ uuid32 = <<57005, 48879>>

\* C7: for a base-derived UUID uuid_128_to_32 succeeds and stores
\* byte0*2^24 + byte1*2^16 + byte2*2^8 + byte3 (high half byte0*2^8 + byte1,
\* low half byte2*2^8 + byte3), also when byte 0 >= 0x80; the low 16 bits
\* are the value uuid_128_to_16 stores for the same UUID.
C7_Value32 ==
  (op = "uuid_128_to_32" /\ arg # NULL /\ ~NotBaseDerived(arg)) =>
    /\ aborted = FALSE
    /\ ret = TRUE
    /\ uuid32 = <<uu(arg, 0) * 256 + uu(arg, 1),
                  uu(arg, 2) * 256 + uu(arg, 3)>>
    /\ uuid_128_to_16(arg, 0).ret = TRUE
    /\ uuid_128_to_16(arg, 0).out = uuid32[2]

\* uuid_128_to_32 has succeeded on a UUID whose byte 0 has its top bit set.
C7_Witness ==
  /\ op = "uuid_128_to_32"
  /\ arg # NULL
  /\ uu(arg, 0) >= 128
  /\ uu(arg, 3) = 255
  /\ ret = TRUE
  /\ uuid32[1] >= 32768

\* The UUID with bytes 0-1 zero, bytes 2-3 the 16-bit value v (byte 2 the
\* high byte) and bytes 4-15 the base pattern.
FromUuid16(v) == <<0, 0, v \div 256, v % 256>> \o BaseTail

\* C6 as stated: for a base-derived u with v = uuid_128_to_16(u), the UUID w
\* built from v is base-derived, uuid_128_to_16(w) = v, and w equals u.
C6_AsStated ==
  (op = "uuid_128_to_16" /\ ret = TRUE /\ aborted = FALSE) =>
    LET w == FromUuid16(uuid16)
    IN /\ uuid_is_base(w)
       /\ uuid_128_to_16(w, 0) = [ret |-> TRUE, out |-> uuid16]
       /\ w = arg

\* C6 amended: w is base-derived, uuid_128_to_16(w) = v, and w equals u in
\* bytes 2-15; w equals u exactly when bytes 0-1 of u are zero.
C6_Reconstruction ==
  (op = "uuid_128_to_16" /\ ret = TRUE /\ aborted = FALSE) =>
    LET w == FromUuid16(uuid16)
    IN /\ uuid_is_base(w)
       /\ uuid_128_to_16(w, 0) = [ret |-> TRUE, out |-> uuid16]
       /\ \A i \in 2..15 : uu(w, i) = uu(arg, i)
       /\ (w = arg) = (uu(arg, 0) = 0 /\ uu(arg, 1) = 0)

\* uuid_128_to_16 has succeeded on scenario 1's UUID and stored 0x1101.
C6_Witness ==
  /\ op = "uuid_128_to_16"
  /\ ret = TRUE
  /\ arg = SppUuid
  /\ uuid16 = 4353

----------------------------------------------------------------------------
(* Properties of formatting (SpecFormat) *)

\* "0123456789abcdef"
LowerHex ==
  <<48, 49, 50, 51, 52, 53, 54, 55, 56, 57, 97, 98, 99, 100, 101, 102>>

\* The two lowercase hex digits of byte b.
TwoDigits(b) == <<LowerHex[(b \div 16) + 1], LowerHex[(b % 16) + 1]>>

RECURSIVE Digits(_, _, _)
Digits(u, lo, hi) ==
  IF lo > hi THEN <<>> ELSE TwoDigits(uu(u, lo)) \o Digits(u, lo + 1, hi)

\* The canonical text of u: groups of 4, 2, 2, 2 and 6 bytes.
Canonical(u) ==
  Digits(u, 0, 3) \o <<45>> \o Digits(u, 4, 5) \o <<45>> \o
  Digits(u, 6, 7) \o <<45>> \o Digits(u, 8, 9) \o <<45>> \o
  Digits(u, 10, 15)

C1_RoundTripFromBytes ==
  [][(/\ op = "uuid_to_string"
      /\ aborted = FALSE
      /\ op' = "uuid_new"
      /\ text' = uuid_string_data(uuid_string))
     => (/\ Len(text') = 36
         /\ parsed' # NULL
         /\ \A i \in 0..15 : uu(parsed', i) = uu(arg, i)
         /\ uuid_is_equal(arg, parsed'))]_vars

\* uuid_new has parsed the text written for the caller's UUID, which has
\* letters and bytes below 0x10, and returned its bytes.
C1_Witness ==
  /\ op = "uuid_new"
  /\ uuid_string # NULL
  /\ text = uuid_string_data(uuid_string)
  /\ Len(text) = 36
  /\ uuid = MixedUuid
  /\ parsed = uuid

----------------------------------------------------------------------------
(* Properties of parsing (SpecParse) *)

DashOffsets == {8, 13, 18, 23}

IsHex(c) == c \in (48..57) \cup (97..102) \cup (65..70)

HexValue(c) ==
  IF c \in 48..57 THEN c - 48 ELSE IF c \in 97..102 THEN c - 87 ELSE c - 55

\* '-' at the four offsets, in a text of at least 36 characters.
DashesInPlace(s) ==
  Len(s) >= 36 /\ \A off \in DashOffsets : s[off + 1] = 45

\* 36 characters: '-' at the four offsets, hex digits of either case at the
\* other 32.
WellFormed(s) ==
  /\ Len(s) = 36
  /\ \A off \in 0..35 :
       IF off \in DashOffsets THEN s[off + 1] = 45 ELSE IsHex(s[off + 1])

\* s with its letters A-F in lower case.
Lowercased(s) ==
  [i \in 1..Len(s) |-> IF s[i] \in 65..70 THEN s[i] + 32 ELSE s[i]]

\* The offset of the first character of pair k (k = 0..15) of a text.
OffsetOfPair(k) ==
  2 * k + (IF k > 9 THEN 4 ELSE IF k > 7 THEN 3 ELSE IF k > 5 THEN 2
           ELSE IF k > 3 THEN 1 ELSE 0)

\* C2: for a well-formed 36-character text s, uuid_new(s) succeeds and
\* uuid_to_string of its result is s with every hex letter in lower case.
C2_RoundTripFromText ==
  [][/\ (op' = "uuid_new" /\ WellFormed(text')) => parsed' # NULL
     /\ (/\ op = "uuid_new"
         /\ WellFormed(text)
         /\ op' = "uuid_to_string"
         /\ aborted' = FALSE
         /\ arg' = parsed)
        => uuid_string_data(uuid_string') = Lowercased(text)]_vars

\* uuid_to_string has formatted the result of parsing a mixed-case text and
\* the buffer holds that text in lower case.
C2_Witness ==
  /\ op = "uuid_to_string"
  /\ aborted = FALSE
  /\ text = MixedText
  /\ arg = parsed
  /\ parsed # NULL
  /\ uuid_string_data(uuid_string) = Lowercased(MixedText)
  /\ Lowercased(MixedText) # MixedText

\* C3: uuid_new returns NULL, and allocates nothing, when the input has
\* fewer than 36 characters or one of offsets 8, 13, 18, 23 does not hold
\* '-'; otherwise it returns 16 bytes, all written, which do not depend on
\* the characters after the 36th.
C3_Malformed ==
  [][op' = "uuid_new" =>
       IF Len(text') < 36 \/ (\E off \in DashOffsets : text'[off + 1] # 45)
         THEN /\ parsed' = NULL
              /\ live' = live
         ELSE /\ parsed' # NULL
              /\ Len(parsed') = 16
              /\ \A i \in 1..16 : parsed'[i] \in 0..255
              /\ parsed' = uuid_new(SubSeq(text', 1, 36)).uuid
              /\ live' = live + 1]_vars

\* uuid_new has refused a text of 36 or more characters whose offset 23 is
\* the only one of the four that does not hold '-'.
C3_Witness ==
  /\ op = "uuid_new"
  /\ Len(text) >= 36
  /\ text[24] # 45
  /\ \A off \in {8, 13, 18} : text[off + 1] = 45
  /\ parsed = NULL
  /\ live = 0

\* A pair of characters that are not both hex digits.
BadPair(s, k) ==
  ~(IsHex(s[OffsetOfPair(k) + 1]) /\ IsHex(s[OffsetOfPair(k) + 2]))

PairValue(s, k) ==
  16 * HexValue(s[OffsetOfPair(k) + 1]) + HexValue(s[OffsetOfPair(k) + 2])

IsSpace(c) == c \in {32, 9, 10, 11, 12, 13}

\* What the conversion makes of a pair that is not two hex digits.
LenientValue(c0, c1) ==
  IF IsHex(c0) THEN HexValue(c0)
  ELSE IF (IsSpace(c0) \/ c0 = 43) /\ IsHex(c1) THEN HexValue(c1)
  ELSE IF c0 = 45 /\ IsHex(c1) THEN (256 - HexValue(c1)) % 256
  ELSE 0

\* C10 as stated: with the dashes in place uuid_new does not fail, a pair
\* with a character that is not a hex digit gives the byte 0, and every
\* other pair gives its own value.
C10_AsStated ==
  (op = "uuid_new" /\ DashesInPlace(text)) =>
    /\ parsed # NULL
    /\ \A k \in 0..15 :
         uu(parsed, k) = IF BadPair(text, k) THEN 0 ELSE PairValue(text, k)

\* C10 amended: with the dashes in place uuid_new does not fail and every
\* pair of two hex digits gives its own value; a pair with a character that
\* is not a hex digit gives the value of the longest prefix the conversion
\* accepts: the first digit when only the second character is not a digit;
\* the second digit when the first character is white space or '+'; 256
\* minus the second digit, modulo 256, when the first is '-'; 0 otherwise.
C10_Lenient ==
  (op = "uuid_new" /\ DashesInPlace(text)) =>
    /\ parsed # NULL
    /\ \A k \in 0..15 :
         uu(parsed, k) =
           IF BadPair(text, k)
             THEN LenientValue(text[OffsetOfPair(k) + 1],
                               text[OffsetOfPair(k) + 2])
             ELSE PairValue(text, k)

\* uuid_new has parsed a text whose last pair is a character that is not a
\* hex digit followed by a non-zero digit, and the byte is 0.
C10_Witness ==
  /\ op = "uuid_new"
  /\ DashesInPlace(text)
  /\ parsed # NULL
  /\ text[35] = 103
  /\ text[36] = 70
  /\ uu(parsed, 15) = 0
  /\ uu(parsed, 14) = 62

====
